---- MODULE Spec2Model ----
(***************************************************************************)
(* Model of .github/workflows/scripts/azure_openai_hello.go: the main      *)
(* function, the iterateDockerfileBuild loop, buildDockerfile and          *)
(* analyzeDockerfile with its regex based extraction.                      *)
(*                                                                         *)
(* Texts (file contents, build output, model responses) are sequences of  *)
(* tokens.  A token is either one of the two literals the regular          *)
(* expressions of analyzeDockerfile look for (the 16 character sentinel    *)
(* and the 4 characters FROM; neither literal overlaps itself or the       *)
(* other, so a text splits into tokens in one way only), a newline, a      *)
(* blank, or one other character.                                          *)
(*                                                                         *)
(* The environment of one run is fixed: nothing but the program writes the *)
(* two files, and the search path either holds the docker executable for   *)
(* the whole run or does not.                                              *)
(***************************************************************************)
EXTENDS Integers, Sequences, FiniteSets, TLC

VARIABLES
    apiKey, endpoint, args,          \* os.Getenv of the two variables, os.Args[1:]
    disk, structFile,                \* content of the two files (or Missing)
    dockerInPath,                    \* exec.LookPath("docker") finds the tool
    resp,                            \* the last chat response received
    pc,                              \* position of the single thread
    maxIterations, dockerfilePath, fileStructurePath,
    dockerfileContent, repoStructure, currentDockerfile, i,
    success, buildOutput, input, result,
    err, exitCode, stdout,
    builds, chats, writes, reads     \* calls made so far

vars == <<apiKey, endpoint, args, disk, structFile, dockerInPath, resp, pc,
          maxIterations,
          dockerfilePath, fileStructurePath, dockerfileContent,
          repoStructure, currentDockerfile, i, success, buildOutput, input,
          result, err, exitCode, stdout, builds, chats, writes, reads>>

-----------------------------------------------------------------------------
(* Bounds *)

MaxLen == 5

MaxRespLen == 1

MaxIterArg == 2

-----------------------------------------------------------------------------
(* Texts *)

Marker == "<<<DOCKERFILE>>>"

From == "FROM"

NL == "\n"

SP == " "

Other == "x"

Alphabet == {Marker, From, NL, SP, Other}

Texts(n) == UNION {[1..k -> Alphabet] : k \in 0..n}

Min(S) == CHOOSE x \in S : \A y \in S : x <= y

Max(S) == CHOOSE x \in S : \A y \in S : y <= x

IsSpace(c) == c \in {SP, NL}

TrimSpace(s) ==
    LET keep == {k \in 1..Len(s) : ~IsSpace(s[k])}
    IN  IF keep = {} THEN <<>> ELSE SubSeq(s, Min(keep), Max(keep))

FindStringSubmatch_Greedy(content) ==
    LET idx == {k \in 1..Len(content) : content[k] = Marker}
    IN  IF Cardinality(idx) < 2
        THEN <<>>
        ELSE LET a == Min(idx)
                 b == Max(idx)
             IN  <<SubSeq(content, a, b), SubSeq(content, a + 1, b - 1)>>

\* regexp `<<<DOCKERFILE>>>([\s\S]*?)<<<DOCKERFILE>>>`, FindStringSubmatch:
\* the leftmost match, its lazy group ending at the next sentinel; the
\* result is <<whole match, group 1>>, or the empty list when nothing matches.
FindStringSubmatch(content) ==
    LET idx == {k \in 1..Len(content) : content[k] = Marker}
    IN  IF Cardinality(idx) < 2
        THEN <<>>
        ELSE LET a == Min(idx)
                 b == Min(idx \ {a})
             IN  <<SubSeq(content, a, b), SubSeq(content, a + 1, b - 1)>>

\* regexp `(?m)^FROM[\s\S]*?$`, FindString: the leftmost FROM at the start
\* of a line, lazily extended to the first position where $ matches, which
\* in multi-line mode is the end of that same line (or the end of the text).
FromFindString(content) ==
    LET n == Len(content)
        starts == {p \in 1..n : /\ content[p] = From
                                /\ (p = 1 \/ content[p - 1] = NL)}
    IN  IF starts = {}
        THEN <<>>
        ELSE LET p == Min(starts)
                 ends == {q \in p..n : q = n \/ content[q + 1] = NL}
             IN  SubSeq(content, p, Min(ends))

ExtractFixedDockerfile_TrimFallback(content) ==
    LET matches == FindStringSubmatch(content)
    IN  IF Len(matches) > 1
        THEN TrimSpace(matches[2])
        ELSE LET fromMatches == FromFindString(content)
             IN  IF fromMatches # <<>> THEN fromMatches
                 ELSE TrimSpace(content)

\* lines 85-105 of analyzeDockerfile: the fixed Dockerfile of a response text
ExtractFixedDockerfile(content) ==
    LET matches == FindStringSubmatch(content)
    IN  IF Len(matches) > 1
        THEN TrimSpace(matches[2])
        ELSE LET fromMatches == FromFindString(content)
             IN  IF fromMatches # <<>> THEN fromMatches ELSE content

-----------------------------------------------------------------------------
(* Values *)

Missing == <<"ENOENT">>

NotFoundMsg ==
    <<"Docker executable not found in PATH. Please install Docker or ensure it's available in your PATH.">>

KeyVar == "AZURE_OPENAI_KEY"

EndpointVar == "AZURE_OPENAI_ENDPOINT"

\* the message of line 205, word by word
EnvMsg ==
    <<"Error:", "AZURE_OPENAI_KEY", "and", "AZURE_OPENAI_ENDPOINT",
      "environment", "variables", "must", "be", "set">>

IterateCmd == "iterate-dockerfile-build"

DefaultMaxIterations == 5

DefaultDockerfilePath == "../../../Dockerfile"

DefaultFileStructurePath == "repo_structure.txt"

NoInput ==
    [DockerfileContent |-> <<>>, ErrorMessages |-> <<>>,
     repoFileTree |-> <<>>, DockerfilePath |-> ""]

\* the format strings of the errors iterateDockerfileBuild returns
ReadDockerfileErr == "error reading Dockerfile: %v"

ReadStructureErr == "error reading repository structure: %v"

AnalysisErr == "error in AI analysis: %v"

WriteErr == "error writing fixed Dockerfile: %v"

ExhaustedErr == "failed to fix Dockerfile after %d iterations"

\* an error value: its format string and the integer it names (0 if none)
NoError == [kind |-> "nil", n |-> 0]

Error(kind, n) == [kind |-> kind, n |-> n]

\* fmt.Sscanf(s, "%d", &maxIterations): the parsed integer, or the old value
\* when s does not start with an integer.
DecimalStr == <<"0", "1", "2", "3", "4", "5", "6", "7", "8", "9">>

Sscanf(s, old) ==
    IF s = "-1" THEN -1
    ELSE IF \E k \in 1..Len(DecimalStr) : DecimalStr[k] = s
         THEN (CHOOSE k \in 1..Len(DecimalStr) : DecimalStr[k] = s) - 1
         ELSE old

IterArgs == {"abc", "-1"} \cup {DecimalStr[k + 1] : k \in 0..MaxIterArg}

ArgLists ==
    {<<>>, <<"hello">>, <<IterateCmd>>, <<IterateCmd, "Dockerfile">>,
     <<IterateCmd, "Dockerfile", "tree.txt">>}
    \cup {<<IterateCmd, "Dockerfile", "tree.txt", s>> : s \in IterArgs}

InitialDockerfiles == {<<From, Other>>, <<Other, NL>>}

InitialStructures == {<<>>, <<Other>>}

BuildOutputs == {<<>>, <<Other>>}

SampleResponses ==
    {<<Other, Marker, NL, From, Other, NL, Marker, Other>>,
     <<Other, NL, From, Other, NL, Other>>,
     <<Marker, NL, From, SP, Other>>}

Responses == Texts(MaxRespLen) \cup SampleResponses

\* What client.GetChatCompletions can return: an error, or a response with
\* no choice, with a first choice without content, or with a content.
ChatReturn(failed, nchoices, hasContent, content) ==
    [failed |-> failed, nchoices |-> nchoices, hasContent |-> hasContent,
     content |-> content]

\* the response variable before any call: no error, no choice
NoResponse == ChatReturn(FALSE, 0, FALSE, <<>>)

ChatFailures ==
    {ChatReturn(TRUE, 0, FALSE, <<>>), ChatReturn(FALSE, 0, FALSE, <<>>),
     ChatReturn(FALSE, 1, FALSE, <<>>)}

ChatReturns(texts) ==
    ChatFailures \cup {ChatReturn(FALSE, 1, TRUE, c) : c \in texts}

EnvMissing_Both(key, url) == key = "" /\ url = ""

\* apiKey == "" || endpoint == ""
EnvMissing(key, url) == key = "" \/ url = ""

ReadFails_Ignored(file) == FALSE

\* os.ReadFile returns an error
ReadFails(file) == file = Missing

LoopCondition_Inclusive(n, max) == n <= max

\* the condition of the for loop
LoopCondition(n, max) == n < max

ExhaustedError_Default(max) ==
    Error(ExhaustedErr, DefaultMaxIterations)

\* the error returned after the loop
ExhaustedError(max) ==
    Error(ExhaustedErr, max)

\* promptText of analyzeDockerfile, as the list of its parts: the fixed
\* sentences and the texts inserted between them
PromptText(in) ==
    <<<<"Analyze the following Dockerfile for errors and suggest fixes:">>,
      in.DockerfileContent>>
    \o (IF in.ErrorMessages # <<>>
        THEN <<<<"Errors encountered when running this Dockerfile:">>,
               in.ErrorMessages>>
        ELSE <<<<"No error messages were provided. Please check for potential issues in the Dockerfile.">>>>)
    \o (IF in.repoFileTree # <<>>
        THEN <<<<"Repository files structure:">>, in.repoFileTree>>
        ELSE <<>>)
    \o <<<<"Output the fixed Dockerfile between <<<DOCKERFILE>>> tags.">>>>

-----------------------------------------------------------------------------
(* Initial state: the process has just started *)

Init ==
    /\ apiKey \in {"", "key"}
    /\ endpoint \in {"", "https://endpoint"}
    /\ args \in ArgLists
    /\ disk \in InitialDockerfiles \cup {Missing}
    /\ structFile \in InitialStructures \cup {Missing}
    /\ dockerInPath \in BOOLEAN
    /\ resp = NoResponse
    /\ pc = "main"
    /\ maxIterations = 0
    /\ dockerfilePath = ""
    /\ fileStructurePath = ""
    /\ dockerfileContent = <<>>
    /\ repoStructure = <<>>
    /\ currentDockerfile = <<>>
    /\ i = 0
    /\ success = FALSE
    /\ buildOutput = <<>>
    /\ input = NoInput
    /\ result = <<>>
    /\ err = NoError
    /\ exitCode = -1
    /\ stdout = {}
    /\ builds = 0
    /\ chats = 0
    /\ writes = 0
    /\ reads = 0

-----------------------------------------------------------------------------
(* main *)

Exit(code) ==
    /\ pc' = "exited"
    /\ exitCode' = code

\* a line on standard output: a format string, or the words of a message
Stdout(line) == stdout' = stdout \cup {<<line>>}

ReturnError_ExitZero(e) ==
    /\ err' = e
    /\ Stdout("Error in dockerfile iteration process: %v")
    /\ Exit(0)

\* iterateDockerfileBuild returned e to main, which reports it and exits.
ReturnError(e) ==
    /\ err' = e
    /\ Stdout("Error in dockerfile iteration process: %v")
    /\ Exit(1)

MainMissingEnv ==
    /\ pc = "main"
    /\ EnvMissing(apiKey, endpoint)
    /\ stdout' = stdout \cup {EnvMsg}
    /\ Exit(1)
    /\ UNCHANGED <<dockerInPath, resp, apiKey, endpoint, args, disk, structFile, maxIterations,
                   dockerfilePath, fileStructurePath, dockerfileContent,
                   repoStructure, currentDockerfile, i, success, buildOutput,
                   input, result, err, builds, chats, writes, reads>>

MainClientError ==
    /\ pc = "main"
    /\ ~EnvMissing(apiKey, endpoint)
    /\ Stdout("Error creating Azure OpenAI client: %v")
    /\ Exit(1)
    /\ UNCHANGED <<dockerInPath, resp, apiKey, endpoint, args, disk, structFile, maxIterations,
                   dockerfilePath, fileStructurePath, dockerfileContent,
                   repoStructure, currentDockerfile, i, success, buildOutput,
                   input, result, err, builds, chats, writes, reads>>

MainUsage ==
    /\ pc = "main"
    /\ ~EnvMissing(apiKey, endpoint)
    /\ ~(Len(args) > 0)
    /\ Stdout("Usage:")
    /\ Exit(0)
    /\ UNCHANGED <<dockerInPath, resp, apiKey, endpoint, args, disk, structFile, maxIterations,
                   dockerfilePath, fileStructurePath, dockerfileContent,
                   repoStructure, currentDockerfile, i, success, buildOutput,
                   input, result, err, builds, chats, writes, reads>>

MainIterate_AnyCommand ==
    /\ pc = "main"
    /\ ~EnvMissing(apiKey, endpoint)
    /\ Len(args) > 0
    /\ dockerfilePath' =
           IF Len(args) > 1 THEN args[2] ELSE DefaultDockerfilePath
    /\ fileStructurePath' =
           IF Len(args) > 2 THEN args[3] ELSE DefaultFileStructurePath
    /\ maxIterations' =
           IF Len(args) > 3 THEN Sscanf(args[4], DefaultMaxIterations)
           ELSE DefaultMaxIterations
    /\ Stdout("Starting Dockerfile build iteration process for: %s")
    /\ reads' = reads + 1
    /\ pc' = "read_dockerfile"
    /\ UNCHANGED <<dockerInPath, resp, apiKey, endpoint, args, disk,
                   structFile, dockerfileContent, repoStructure,
                   currentDockerfile, i, success, buildOutput, input, result,
                   err, exitCode, builds, chats, writes>>

\* case "iterate-dockerfile-build": the optional arguments, then the call of
\* iterateDockerfileBuild up to its first os.ReadFile.
MainIterate ==
    /\ pc = "main"
    /\ ~EnvMissing(apiKey, endpoint)
    /\ Len(args) > 0
    /\ args[1] = IterateCmd
    /\ dockerfilePath' =
           IF Len(args) > 1 THEN args[2] ELSE DefaultDockerfilePath
    /\ fileStructurePath' =
           IF Len(args) > 2 THEN args[3] ELSE DefaultFileStructurePath
    /\ maxIterations' =
           IF Len(args) > 3 THEN Sscanf(args[4], DefaultMaxIterations)
           ELSE DefaultMaxIterations
    /\ Stdout("Starting Dockerfile build iteration process for: %s")
    /\ reads' = reads + 1
    /\ pc' = "read_dockerfile"
    /\ UNCHANGED <<dockerInPath, resp, apiKey, endpoint, args, disk, structFile,
                   dockerfileContent, repoStructure, currentDockerfile, i,
                   success, buildOutput, input, result, err, exitCode,
                   builds, chats, writes>>

\* default: the one-shot test prompt.
MainHello ==
    /\ pc = "main"
    /\ ~EnvMissing(apiKey, endpoint)
    /\ Len(args) > 0
    /\ args[1] # IterateCmd
    /\ chats' = chats + 1
    /\ pc' = "hello"
    /\ UNCHANGED <<dockerInPath, resp, apiKey, endpoint, args, disk, structFile, maxIterations,
                   dockerfilePath, fileStructurePath, dockerfileContent,
                   repoStructure, currentDockerfile, i, success, buildOutput,
                   input, result, err, exitCode, stdout, builds, writes,
                   reads>>

HelloError(r) ==
    /\ pc = "hello"
    /\ resp' = r
    /\ r.failed
    /\ Stdout("Error getting chat completions: %v")
    /\ Exit(1)
    /\ UNCHANGED <<dockerInPath, apiKey, endpoint, args, disk, structFile, maxIterations,
                   dockerfilePath, fileStructurePath, dockerfileContent,
                   repoStructure, currentDockerfile, i, success, buildOutput,
                   input, result, err, builds, chats, writes, reads>>

HelloResponse(r) ==
    /\ pc = "hello"
    /\ resp' = r
    /\ ~r.failed
    /\ stdout' = stdout \cup {<<"Azure OpenAI Test:">>} \cup
           (IF r.nchoices > 0 /\ r.hasContent
            THEN {<<"Response: %s">>} ELSE {})
    /\ Exit(0)
    /\ UNCHANGED <<dockerInPath, apiKey, endpoint, args, disk, structFile, maxIterations,
                   dockerfilePath, fileStructurePath, dockerfileContent,
                   repoStructure, currentDockerfile, i, success, buildOutput,
                   input, result, err, builds, chats, writes, reads>>

-----------------------------------------------------------------------------
(* iterateDockerfileBuild: the two reads *)

ReadDockerfileError ==
    /\ pc = "read_dockerfile"
    /\ ReadFails(disk)
    /\ ReturnError(Error(ReadDockerfileErr, 0))
    /\ UNCHANGED <<dockerInPath, resp, apiKey, endpoint, args, disk, structFile, maxIterations,
                   dockerfilePath, fileStructurePath, dockerfileContent,
                   repoStructure, currentDockerfile, i, success, buildOutput,
                   input, result, builds, chats, writes, reads>>

ReadDockerfileOk ==
    /\ pc = "read_dockerfile"
    /\ ~ReadFails(disk)
    /\ dockerfileContent' = disk
    /\ reads' = reads + 1
    /\ pc' = "read_structure"
    /\ UNCHANGED <<dockerInPath, resp, apiKey, endpoint, args, disk, structFile, maxIterations,
                   dockerfilePath, fileStructurePath, repoStructure,
                   currentDockerfile, i, success, buildOutput, input, result,
                   err, exitCode, stdout, builds, chats, writes>>

ReadStructureError ==
    /\ pc = "read_structure"
    /\ ReadFails(structFile)
    /\ ReturnError(Error(ReadStructureErr, 0))
    /\ UNCHANGED <<dockerInPath, resp, apiKey, endpoint, args, disk, structFile, maxIterations,
                   dockerfilePath, fileStructurePath, dockerfileContent,
                   repoStructure, currentDockerfile, i, success, buildOutput,
                   input, result, builds, chats, writes, reads>>

ReadStructureOk ==
    /\ pc = "read_structure"
    /\ ~ReadFails(structFile)
    /\ repoStructure' = structFile
    /\ currentDockerfile' = dockerfileContent
    /\ i' = 0
    /\ pc' = "loop"
    /\ UNCHANGED <<dockerInPath, resp, apiKey, endpoint, args, disk, structFile, maxIterations,
                   dockerfilePath, fileStructurePath, dockerfileContent,
                   success, buildOutput, input, result, err, exitCode,
                   stdout, builds, chats, writes, reads>>

-----------------------------------------------------------------------------
(* iterateDockerfileBuild: the loop *)

\* i < maxIterations: the iteration starts and buildDockerfile is called.
LoopBuild ==
    /\ pc = "loop"
    /\ LoopCondition(i, maxIterations)
    /\ Stdout("=== Iteration %d of %d ===")
    /\ builds' = builds + 1
    /\ pc' = "building"
    /\ UNCHANGED <<dockerInPath, resp, apiKey, endpoint, args, disk, structFile, maxIterations,
                   dockerfilePath, fileStructurePath, dockerfileContent,
                   repoStructure, currentDockerfile, i, success, buildOutput,
                   input, result, err, exitCode, chats, writes, reads>>

LoopExhausted_ReturnsNil ==
    /\ pc = "loop"
    /\ ~LoopCondition(i, maxIterations)
    /\ err' = NoError
    /\ Exit(0)
    /\ UNCHANGED <<dockerInPath, resp, apiKey, endpoint, args, disk,
                   structFile, maxIterations, dockerfilePath,
                   fileStructurePath, dockerfileContent, repoStructure,
                   currentDockerfile, i, success, buildOutput, input, result,
                   stdout, builds, chats, writes, reads>>

\* the loop condition is false: the exhausted error is returned
LoopExhausted ==
    /\ pc = "loop"
    /\ ~LoopCondition(i, maxIterations)
    /\ ReturnError(ExhaustedError(maxIterations))
    /\ UNCHANGED <<dockerInPath, resp, apiKey, endpoint, args, disk, structFile, maxIterations,
                   dockerfilePath, fileStructurePath, dockerfileContent,
                   repoStructure, currentDockerfile, i, success, buildOutput,
                   input, result, builds, chats, writes, reads>>

AfterFailedBuild_Original(out, lines) ==
    /\ success' = FALSE
    /\ buildOutput' = out
    /\ stdout' = stdout \cup lines
                   \cup {<<"Docker build failed. Using AI to fix issues...">>}
    /\ input' = [DockerfileContent |-> dockerfileContent,
                 ErrorMessages |-> out,
                 repoFileTree |-> repoStructure,
                 DockerfilePath |-> dockerfilePath]
    /\ chats' = chats + 1
    /\ pc' = "analyzing"
    /\ UNCHANGED <<dockerInPath, resp, apiKey, endpoint, args, disk,
                   structFile, maxIterations, dockerfilePath,
                   fileStructurePath, dockerfileContent, repoStructure,
                   currentDockerfile, i, result, err, exitCode, builds,
                   writes, reads>>

\* buildDockerfile returned (false, out): the input of the analysis is
\* prepared and analyzeDockerfile is called, up to its chat request.
AfterFailedBuild(out, lines) ==
    /\ success' = FALSE
    /\ buildOutput' = out
    /\ stdout' = stdout \cup lines
                   \cup {<<"Docker build failed. Using AI to fix issues...">>}
    /\ input' = [DockerfileContent |-> currentDockerfile,
                 ErrorMessages |-> out,
                 repoFileTree |-> repoStructure,
                 DockerfilePath |-> dockerfilePath]
    /\ chats' = chats + 1
    /\ pc' = "analyzing"
    /\ UNCHANGED <<dockerInPath, resp, apiKey, endpoint, args, disk, structFile, maxIterations,
                   dockerfilePath, fileStructurePath, dockerfileContent,
                   repoStructure, currentDockerfile, i, result, err,
                   exitCode, builds, writes, reads>>

BuildToolNotFound_Fatal ==
    /\ pc = "building"
    /\ ~dockerInPath
    /\ success' = FALSE
    /\ buildOutput' = NotFoundMsg
    /\ err' = Error(NotFoundMsg[1], 0)
    /\ stdout' = stdout \cup {NotFoundMsg}
    /\ Exit(1)
    /\ UNCHANGED <<dockerInPath, resp, apiKey, endpoint, args, disk,
                   structFile, maxIterations, dockerfilePath,
                   fileStructurePath, dockerfileContent, repoStructure,
                   currentDockerfile, i, input, result, builds, chats,
                   writes, reads>>

\* exec.LookPath("docker") failed.
BuildToolNotFound ==
    /\ pc = "building"
    /\ ~dockerInPath
    /\ AfterFailedBuild(NotFoundMsg, {NotFoundMsg})

\* docker build ran and exited with an error.
BuildFailed(out) ==
    /\ pc = "building"
    /\ dockerInPath
    /\ AfterFailedBuild(out, {<<"Docker build failed with error:">>})

BuildSucceeded_NoReturn(out) ==
    /\ pc = "building"
    /\ dockerInPath
    /\ success' = TRUE
    /\ buildOutput' = out
    /\ Stdout("Docker build succeeded!")
    /\ input' = [DockerfileContent |-> currentDockerfile,
                 ErrorMessages |-> out,
                 repoFileTree |-> repoStructure,
                 DockerfilePath |-> dockerfilePath]
    /\ chats' = chats + 1
    /\ pc' = "analyzing"
    /\ UNCHANGED <<dockerInPath, resp, apiKey, endpoint, args, disk, structFile, maxIterations,
                   dockerfilePath, fileStructurePath, dockerfileContent,
                   repoStructure, currentDockerfile, i, result, err,
                   exitCode, builds, writes, reads>>

\* docker build ran and exited with status 0: return nil.
BuildSucceeded(out) ==
    /\ pc = "building"
    /\ dockerInPath
    /\ success' = TRUE
    /\ buildOutput' = out
    /\ Stdout("Docker build succeeded!")
    /\ err' = NoError
    /\ Exit(0)
    /\ UNCHANGED <<dockerInPath, resp, apiKey, endpoint, args, disk, structFile, maxIterations,
                   dockerfilePath, fileStructurePath, dockerfileContent,
                   repoStructure, currentDockerfile, i, input, result,
                   builds, chats, writes, reads>>

AnalyzeChatError_Retry(r) ==
    /\ pc = "analyzing"
    /\ resp' = r
    /\ r.failed
    /\ chats' = chats + 1
    /\ UNCHANGED <<dockerInPath, apiKey, endpoint, args, disk, structFile, pc,
                   maxIterations, dockerfilePath, fileStructurePath,
                   dockerfileContent, repoStructure, currentDockerfile, i,
                   success, buildOutput, input, result, err, exitCode,
                   stdout, builds, writes, reads>>

\* client.GetChatCompletions returned an error.
AnalyzeChatError(r) ==
    /\ pc = "analyzing"
    /\ resp' = r
    /\ r.failed
    /\ ReturnError(Error(AnalysisErr, 0))
    /\ UNCHANGED <<dockerInPath, apiKey, endpoint, args, disk, structFile, maxIterations,
                   dockerfilePath, fileStructurePath, dockerfileContent,
                   repoStructure, currentDockerfile, i, success, buildOutput,
                   input, result, builds, chats, writes, reads>>

\* no choice, or a first choice without content: "no response from AI model".
AnalyzeNoResponse(r) ==
    /\ pc = "analyzing"
    /\ resp' = r
    /\ ~r.failed
    /\ ~(r.nchoices > 0 /\ r.hasContent)
    /\ ReturnError(Error(AnalysisErr, 0))
    /\ UNCHANGED <<dockerInPath, apiKey, endpoint, args, disk, structFile, maxIterations,
                   dockerfilePath, fileStructurePath, dockerfileContent,
                   repoStructure, currentDockerfile, i, success, buildOutput,
                   input, result, builds, chats, writes, reads>>

\* analyzeDockerfile returned a result: currentDockerfile is replaced and
\* os.WriteFile is called.
AnalyzeResult(r) ==
    /\ pc = "analyzing"
    /\ resp' = r
    /\ ~r.failed
    /\ r.nchoices > 0 /\ r.hasContent
    /\ result' = <<[FixedDockerfile |-> ExtractFixedDockerfile(r.content),
                    Analysis |-> r.content]>>
    /\ currentDockerfile' = result'[1].FixedDockerfile
    /\ Stdout("AI suggested fixes:")
    /\ writes' = writes + 1
    /\ pc' = "writing"
    /\ UNCHANGED <<dockerInPath, apiKey, endpoint, args, disk, structFile, maxIterations,
                   dockerfilePath, fileStructurePath, dockerfileContent,
                   repoStructure, i, success, buildOutput, input, err,
                   exitCode, builds, chats, reads>>

WrittenText_Analysis == result[1].Analysis

\* the bytes handed to os.WriteFile
WrittenText == currentDockerfile

\* os.WriteFile succeeded; the loop body ends and i is incremented.  The
\* variables of the loop body keep the values of this iteration until the
\* next one assigns them.
WriteOk ==
    /\ pc = "writing"
    /\ disk' = WrittenText
    /\ Stdout("Updated Dockerfile written. Attempting build again...")
    /\ i' = i + 1
    /\ pc' = "loop"
    /\ UNCHANGED <<dockerInPath, resp, apiKey, endpoint, args, structFile, maxIterations,
                   dockerfilePath, fileStructurePath, dockerfileContent,
                   repoStructure, currentDockerfile, success, buildOutput,
                   input, result, err, exitCode, builds, chats, writes,
                   reads>>

WriteError_Ignored ==
    /\ pc = "writing"
    /\ i' = i + 1
    /\ pc' = "loop"
    /\ UNCHANGED <<dockerInPath, resp, apiKey, endpoint, args, disk,
                   structFile, maxIterations, dockerfilePath,
                   fileStructurePath, dockerfileContent, repoStructure,
                   currentDockerfile, success, buildOutput, input, result,
                   err, exitCode, stdout, builds, chats, writes, reads>>

\* os.WriteFile failed: the file is untouched (open failed) or truncated and
\* partly written.
WriteError ==
    /\ pc = "writing"
    /\ disk' \in {disk} \cup {SubSeq(WrittenText, 1, k) :
                                k \in 0..(Len(WrittenText) - 1)}
    /\ ReturnError(Error(WriteErr, 0))
    /\ UNCHANGED <<dockerInPath, resp, apiKey, endpoint, args, structFile, maxIterations,
                   dockerfilePath, fileStructurePath, dockerfileContent,
                   repoStructure, currentDockerfile, i, success, buildOutput,
                   input, result, builds, chats, writes, reads>>

-----------------------------------------------------------------------------
(* The program *)

Next ==
    \/ MainMissingEnv
    \/ MainClientError
    \/ MainUsage
    \/ MainIterate
    \/ MainHello
    \/ \E r \in ChatReturns(Responses) : HelloError(r)
    \/ \E r \in ChatReturns(Responses) : HelloResponse(r)
    \/ ReadDockerfileError
    \/ ReadDockerfileOk
    \/ ReadStructureError
    \/ ReadStructureOk
    \/ LoopBuild
    \/ LoopExhausted
    \/ BuildToolNotFound
    \/ \E out \in BuildOutputs : BuildFailed(out)
    \/ \E out \in BuildOutputs : BuildSucceeded(out)
    \/ \E r \in ChatReturns(Responses) : AnalyzeChatError(r)
    \/ \E r \in ChatReturns(Responses) : AnalyzeNoResponse(r)
    \/ \E r \in ChatReturns(Responses) : AnalyzeResult(r)
    \/ WriteOk
    \/ WriteError

Spec == Init /\ [][Next]_vars

------------------------------------------------------------------------
(* iterateDockerfileBuild alone: it starts where main has called it, for    *)
(* every argument list of the subcommand, and the analyses answer with the  *)
(* sample responses.                                                        *)

IterateInit ==
    /\ apiKey = "key"
    /\ endpoint = "https://endpoint"
    /\ args \in {a \in ArgLists : Len(a) > 0 /\ a[1] = IterateCmd}
    /\ disk \in InitialDockerfiles \cup {Missing}
    /\ structFile \in InitialStructures \cup {Missing}
    /\ dockerInPath \in BOOLEAN
    /\ resp = NoResponse
    /\ pc = "read_dockerfile"
    /\ maxIterations =
           IF Len(args) > 3 THEN Sscanf(args[4], DefaultMaxIterations)
           ELSE DefaultMaxIterations
    /\ dockerfilePath =
           IF Len(args) > 1 THEN args[2] ELSE DefaultDockerfilePath
    /\ fileStructurePath =
           IF Len(args) > 2 THEN args[3] ELSE DefaultFileStructurePath
    /\ dockerfileContent = <<>>
    /\ repoStructure = <<>>
    /\ currentDockerfile = <<>>
    /\ i = 0
    /\ success = FALSE
    /\ buildOutput = <<>>
    /\ input = NoInput
    /\ result = <<>>
    /\ err = NoError
    /\ exitCode = -1
    /\ stdout = {<<"Starting Dockerfile build iteration process for: %s">>}
    /\ builds = 0
    /\ chats = 0
    /\ writes = 0
    /\ reads = 1

IterateNext ==
    \/ ReadDockerfileError
    \/ ReadDockerfileOk
    \/ ReadStructureError
    \/ ReadStructureOk
    \/ LoopBuild
    \/ LoopExhausted
    \/ BuildToolNotFound
    \/ \E out \in BuildOutputs : BuildFailed(out)
    \/ \E out \in BuildOutputs : BuildSucceeded(out)
    \/ \E r \in ChatReturns(SampleResponses) : AnalyzeChatError(r)
    \/ \E r \in ChatReturns(SampleResponses) : AnalyzeNoResponse(r)
    \/ \E r \in ChatReturns(SampleResponses) : AnalyzeResult(r)
    \/ WriteOk
    \/ WriteError

\* The process is one thread that always takes its next step; the calls it
\* waits for (file reads and writes, the build subprocess, the chat request)
\* are taken to return.
IterateSpec == IterateInit /\ [][IterateNext]_vars /\ WF_vars(IterateNext)

-----------------------------------------------------------------------------
(* analyzeDockerfile alone: one call, over every response text of up to     *)
(* MaxLen tokens.  It starts where the first iteration of a default run     *)
(* waits for the chat response.                                             *)

ExtractInit ==
    /\ apiKey = "key"
    /\ endpoint = "https://endpoint"
    /\ args = <<IterateCmd>>
    /\ disk = <<Other, NL>>
    /\ structFile = <<Other>>
    /\ dockerInPath = TRUE
    /\ resp = NoResponse
    /\ pc = "analyzing"
    /\ maxIterations = DefaultMaxIterations
    /\ dockerfilePath = DefaultDockerfilePath
    /\ fileStructurePath = DefaultFileStructurePath
    /\ dockerfileContent = disk
    /\ repoStructure = structFile
    /\ currentDockerfile = disk
    /\ i = 0
    /\ success = FALSE
    /\ buildOutput = <<Other>>
    /\ input = [DockerfileContent |-> currentDockerfile,
                ErrorMessages |-> buildOutput,
                repoFileTree |-> repoStructure,
                DockerfilePath |-> dockerfilePath]
    /\ result = <<>>
    /\ err = NoError
    /\ exitCode = -1
    /\ stdout = {<<"Starting Dockerfile build iteration process for: %s">>,
                 <<"=== Iteration %d of %d ===">>,
                 <<"Docker build failed with error:">>,
                 <<"Docker build failed. Using AI to fix issues...">>}
    /\ builds = 1
    /\ chats = 1
    /\ writes = 0
    /\ reads = 2

ExtractNext ==
    \/ \E r \in ChatReturns(Texts(MaxLen)) : AnalyzeChatError(r)
    \/ \E r \in ChatReturns(Texts(MaxLen)) : AnalyzeNoResponse(r)
    \/ \E r \in ChatReturns(Texts(MaxLen)) : AnalyzeResult(r)

ExtractSpec == ExtractInit /\ [][ExtractNext]_vars

-----------------------------------------------------------------------------
(* Properties of the iteration loop *)

\* iterateDockerfileBuild got past its two file reads
PastReads ==
    /\ reads = 2
    /\ pc # "read_structure"
    /\ err.kind # ReadStructureErr

\* a run of iterateDockerfileBuild that got past the reads has returned
LoopReturned == PastReads /\ pc = "exited"

\* C1: with N >= 1, a run that gets past the two file reads never makes more
\* than N calls of buildDockerfile, and has made at least one when it returns.
C1_BuildAttemptsBounded ==
    (PastReads /\ maxIterations >= 1) =>
        /\ builds <= maxIterations
        /\ (pc = "exited" => builds >= 1)

C1_Witness ==
    /\ LoopReturned
    /\ maxIterations >= 2
    /\ builds = maxIterations

\* C2: a successful build ends the run at once and successfully: the step
\* that reports success exits with code 0 and without error, and no step
\* ending in a state where the build has succeeded makes a chat call, a
\* build attempt or a write.
C2_SuccessTerminates ==
    [][success' =>
          /\ pc' = "exited"
          /\ exitCode' = 0
          /\ err' = NoError
          /\ chats' = chats
          /\ builds' = builds
          /\ writes' = writes]_vars

C2_Witness ==
    /\ pc = "exited"
    /\ success
    /\ builds = 2
    /\ maxIterations > 2

\* C3: with N >= 1, a run that returned although no build succeeded, no
\* analysis failed and no write failed has made exactly N build attempts and
\* returned the exhausted error, which names N.
C3_ExhaustedAfterN ==
    (/\ LoopReturned
     /\ maxIterations >= 1
     /\ ~success
     /\ err.kind \notin {AnalysisErr, WriteErr}) =>
        /\ builds = maxIterations
        /\ err = Error(ExhaustedErr, maxIterations)
        /\ exitCode = 1

C3_Witness ==
    /\ LoopReturned
    /\ err.kind = ExhaustedErr
    /\ maxIterations = 2
    /\ chats = 2
    /\ writes = 2

\* C4: while a build attempt runs, the Dockerfile on disk is the current
\* revision: the content read at startup in iteration 1, the fixed text the
\* analyzer returned in the iteration before otherwise, and
\* currentDockerfile equals it.
C4_BuildUsesCurrentRevision ==
    pc = "building" =>
        /\ currentDockerfile = disk
        /\ (i = 0 => disk = dockerfileContent)
        /\ (i > 0 => result # <<>> /\ disk = result[1].FixedDockerfile)

C4_Witness ==
    /\ pc = "building"
    /\ i > 0
    /\ disk # dockerfileContent
    /\ result[1].Analysis # disk

-----------------------------------------------------------------------------
(* Properties of the extraction, stated without the operators that model it *)

HasMarkerPair(c) ==
    \E a, b \in 1..Len(c) : a < b /\ c[a] = Marker /\ c[b] = Marker

IsLineStart(c, p) == p = 1 \/ c[p - 1] = NL

HasFromLine(c) ==
    \E p \in 1..Len(c) : c[p] = From /\ IsLineStart(c, p)

AllSpace(c, lo, hi) == \A k \in lo..hi : c[k] \in {SP, NL}

\* t is what lies between the first two sentinels of c, without the white
\* space at its two ends
IsTrimmedFirstPair(c, t) ==
    \E a, b \in 1..Len(c) :
        /\ a < b
        /\ c[a] = Marker
        /\ c[b] = Marker
        /\ \A k \in 1..(b - 1) : k # a => c[k] # Marker
        /\ \E l \in a..(b - 1), r \in (a + 1)..b :
               /\ l < r
               /\ AllSpace(c, a + 1, l)
               /\ AllSpace(c, r, b - 1)
               /\ t = SubSeq(c, l + 1, r - 1)
               /\ (t = <<>> \/ (t[1] \notin {SP, NL}
                                /\ t[Len(t)] \notin {SP, NL}))

\* t is c from its first line that begins with FROM through its end
IsFromFirstFromLineToEnd(c, t) ==
    \E p \in 1..Len(c) :
        /\ c[p] = From
        /\ IsLineStart(c, p)
        /\ \A q \in 1..(p - 1) : ~(c[q] = From /\ IsLineStart(c, q))
        /\ t = SubSeq(c, p, Len(c))

Returned == pc = "writing" /\ result # <<>>

\* C5: when the response text holds a pair of sentinels, the fixed
\* Dockerfile is the text between the first pair, trimmed, whatever stands
\* before and after the pair.
C5_PairExtraction ==
    (Returned /\ HasMarkerPair(result[1].Analysis)) =>
        IsTrimmedFirstPair(result[1].Analysis, result[1].FixedDockerfile)

C5_Witness ==
    /\ Returned
    /\ result[1].Analysis = <<From, Marker, SP, Other, Marker>>
    /\ result[1].FixedDockerfile = <<Other>>

\* C6 (as claimed): without a pair of sentinels but with a line beginning
\* with FROM, the fixed Dockerfile runs from the start of the first such line
\* through the end of the response text.
C6_FromLineToEnd ==
    (/\ Returned
     /\ ~HasMarkerPair(result[1].Analysis)
     /\ HasFromLine(result[1].Analysis)) =>
        IsFromFirstFromLineToEnd(result[1].Analysis,
                                 result[1].FixedDockerfile)

\* C7: with neither a pair of sentinels nor a line beginning with FROM the
\* fixed Dockerfile is the response text itself, untrimmed; and every
\* response text yields a result, never an error.
C7_IdentityFallback ==
    /\ (/\ Returned
        /\ ~HasMarkerPair(result[1].Analysis)
        /\ ~HasFromLine(result[1].Analysis)) =>
           result[1].FixedDockerfile = result[1].Analysis
    /\ Returned => err = NoError
    /\ pc = "analyzing" =>
           \A c \in Texts(MaxLen) :
               /\ ENABLED AnalyzeResult(ChatReturn(FALSE, 1, TRUE, c))
               /\ ~ENABLED AnalyzeChatError(ChatReturn(FALSE, 1, TRUE, c))
               /\ ~ENABLED AnalyzeNoResponse(ChatReturn(FALSE, 1, TRUE, c))

C7_Witness ==
    /\ Returned
    /\ result[1].Analysis = <<SP, Marker, Other, From, NL>>
    /\ result[1].FixedDockerfile = result[1].Analysis

-----------------------------------------------------------------------------
(* Properties of the error paths *)

\* C8: a step of the analyzer call that yields no result ends the run with
\* the analysis error and exit code 1, and makes no chat call, no build
\* attempt and no write and leaves the Dockerfile on disk as it was; a run
\* that has the analysis error has exited.
C8_AnalyzerErrorIsFatal ==
    [][(pc = "analyzing" /\ pc' # "writing") =>
          /\ pc' = "exited"
          /\ exitCode' = 1
          /\ err'.kind = AnalysisErr
          /\ chats' = chats
          /\ builds' = builds
          /\ writes' = writes
          /\ disk' = disk]_vars

C8_Witness ==
    /\ pc = "exited"
    /\ err.kind = AnalysisErr
    /\ builds = 2
    /\ chats = 2
    /\ writes = 1
    /\ disk # dockerfileContent

NamesBoth(line) ==
    /\ \E k \in 1..Len(line) : line[k] = KeyVar
    /\ \E k \in 1..Len(line) : line[k] = EndpointVar

\* C9: for every command line, when one of the two environment variables is
\* empty the process does nothing but exit with code 1 after printing a
\* message that names both: no chat call, build attempt, read or write.
C9_MissingCredentials ==
    (apiKey = "" \/ endpoint = "") =>
        /\ pc \in {"main", "exited"}
        /\ pc = "exited" =>
               /\ exitCode = 1
               /\ \E line \in stdout : NamesBoth(line)
        /\ builds = 0
        /\ chats = 0
        /\ reads = 0
        /\ writes = 0

C9_Witness ==
    /\ pc = "exited"
    /\ apiKey # ""
    /\ endpoint = ""
    /\ Len(args) = 4
    /\ exitCode = 1

ReadFailure(kind) ==
    /\ pc = "exited"
    /\ exitCode = 1
    /\ err.kind = kind
    /\ builds = 0
    /\ chats = 0
    /\ writes = 0

\* C10: once the read of a missing Dockerfile, or of a missing structure
\* file, has returned, the run has ended with the file-read error and exit
\* code 1, without any build attempt, chat call or write.
C10_ReadErrorIsFatal ==
    /\ (disk = Missing /\ reads >= 1 /\ pc # "read_dockerfile") =>
           ReadFailure(ReadDockerfileErr)
    /\ (structFile = Missing /\ reads = 2 /\ pc # "read_structure") =>
           ReadFailure(ReadStructureErr)
    /\ err.kind \in {ReadDockerfileErr, ReadStructureErr} =>
           ReadFailure(err.kind)

C10_Witness ==
    /\ pc = "exited"
    /\ structFile = Missing
    /\ disk # Missing
    /\ err.kind = ReadStructureErr
    /\ reads = 2

-----------------------------------------------------------------------------
(* Properties of the whole process *)

ClientErrLine == <<"Error creating Azure OpenAI client: %v">>

HelloErrLine == <<"Error getting chat completions: %v">>

UsageLine == <<"Usage:">>

IterateMode == Len(args) > 0 /\ args[1] = IterateCmd

HelloMode == Len(args) > 0 /\ args[1] # IterateCmd

CredentialsSet == apiKey # "" /\ endpoint # ""

\* C11: a process that has exited did so with code 1 after every fatal
\* error (missing credentials, client creation failure, file read, analyzer,
\* write or exhausted error, and whenever the build tool was not found), and
\* with code 0 only after a successful build, after the test chat call
\* returned, or after the usage was printed; in iterate mode code 0 follows a
\* build attempt that returned success.
C11_ExitCodes ==
    pc = "exited" =>
        /\ exitCode \in {0, 1}
        /\ (\/ ~CredentialsSet
            \/ ClientErrLine \in stdout
            \/ HelloErrLine \in stdout
            \/ err.kind \in {ReadDockerfileErr, ReadStructureErr,
                             AnalysisErr, WriteErr, ExhaustedErr}
            \/ (builds >= 1 /\ ~dockerInPath)) => exitCode = 1
        /\ exitCode = 0 =>
               \/ success
               \/ (HelloMode /\ chats = 1 /\ ~resp.failed)
               \/ (Len(args) = 0 /\ UsageLine \in stdout)
        /\ (exitCode = 0 /\ IterateMode) =>
               (success /\ builds >= 1 /\ err = NoError)

C11_Witness ==
    /\ pc = "exited"
    /\ exitCode = 1
    /\ err.kind = WriteErr
    /\ builds = 2

Contains(parts, text) == \E k \in 1..Len(parts) : parts[k] = text

\* C14: while the analyzer call of an iteration runs, its input holds the
\* Dockerfile text the failed build of that iteration used (the file on
\* disk), the output of that build (the not-found message when the tool is
\* absent) and the structure file read at startup, and the prompt holds
\* these texts; when the iteration ends, the file on disk is the fixed
\* Dockerfile the analyzer returned.
C14_AnalysisRequest ==
    /\ pc = "analyzing" =>
           /\ input.DockerfileContent = disk
           /\ input.ErrorMessages = buildOutput
           /\ input.repoFileTree = structFile
           /\ ~dockerInPath => input.ErrorMessages = NotFoundMsg
           /\ Contains(PromptText(input), disk)
           /\ buildOutput # <<>> => Contains(PromptText(input), buildOutput)
           /\ structFile # <<>> => Contains(PromptText(input), structFile)
    /\ (pc = "loop" /\ i > 0) =>
           /\ result # <<>>
           /\ disk = result[1].FixedDockerfile
           /\ result[1].Analysis = resp.content

C14_Witness ==
    /\ pc = "analyzing"
    /\ i = 1
    /\ ~dockerInPath
    /\ input.DockerfileContent # dockerfileContent
    /\ input.repoFileTree # <<>>

-----------------------------------------------------------------------------
(* The loop as the state machine Building, Analyzing, Succeeded, Exhausted *)

\* The state of the controller: Building while buildDockerfile runs;
\* Analyzing from the analyzer call to the end of the loop body and the
\* loop test that follows it; Starting at the first loop test; Failed after
\* an analyzer or write error.
Phase ==
    IF pc = "building" THEN "Building"
    ELSE IF pc \in {"analyzing", "writing"} THEN "Analyzing"
    ELSE IF pc = "loop" THEN (IF i = 0 THEN "Starting" ELSE "Analyzing")
    ELSE IF pc = "exited" /\ success THEN "Succeeded"
    ELSE IF pc = "exited" /\ err.kind = ExhaustedErr THEN "Exhausted"
    ELSE IF pc = "exited" /\ err.kind \in {AnalysisErr, WriteErr}
         THEN "Failed"
    ELSE "Outside"

\* C15 (as claimed): Building moves only to Succeeded or Analyzing, Analyzing
\* moves only to Building, a run of the loop that has ended is in Succeeded
\* or Exhausted, and (for N >= 1) Exhausted is entered after a failed build.
C15_StateMachine ==
    [][/\ Phase = "Building" => Phase' \in {"Succeeded", "Analyzing"}
       /\ Phase = "Analyzing" => Phase' \in {"Analyzing", "Building"}
       /\ (pc' = "exited" /\ PastReads') =>
              Phase' \in {"Succeeded", "Exhausted"}
       /\ (Phase' = "Exhausted" /\ maxIterations >= 1) =>
              (builds >= 1 /\ ~success)]_vars

\* C15 (amended): Building moves only to Succeeded or Analyzing; Analyzing
\* moves only to Building or Exhausted, both after the Dockerfile was
\* rewritten with the analyzer's text, or to Failed (analyzer or write
\* error); a run of the loop that has ended is in Succeeded, Exhausted or
\* Failed; Exhausted is entered after the analysis and rewrite that follow
\* the N-th failed build, or from the start without a build when N <= 0.
C15_StateMachineAmended ==
    [][/\ Phase = "Building" => Phase' \in {"Succeeded", "Analyzing"}
       /\ Phase = "Analyzing" =>
              Phase' \in {"Analyzing", "Building", "Exhausted", "Failed"}
       /\ (Phase = "Analyzing" /\ Phase' \in {"Building", "Exhausted"}) =>
              /\ pc = "loop"
              /\ disk = result[1].FixedDockerfile
              /\ writes = builds
       /\ Phase = "Starting" => Phase' \in {"Building", "Exhausted"}
       /\ Phase \notin {"Succeeded", "Exhausted", "Failed"}
       /\ (pc' = "exited" /\ PastReads') =>
              Phase' \in {"Succeeded", "Exhausted", "Failed"}
       /\ Phase' = "Exhausted" =>
              \/ (/\ Phase = "Analyzing"
                  /\ ~success
                  /\ builds = maxIterations
                  /\ writes = maxIterations)
              \/ (Phase = "Starting" /\ maxIterations <= 0)]_vars

C15_Witness ==
    /\ Phase = "Exhausted"
    /\ dockerInPath
    /\ maxIterations = 1
    /\ builds = 1
    /\ writes = 1
    /\ disk # dockerfileContent

\* the build attempts that have returned false so far
FailedBuilds == builds - (IF pc = "building" \/ success THEN 1 ELSE 0)

\* the calls made so far, at each position of iteration i + 1
CallCounts ==
    /\ pc = "loop" => (builds = i /\ chats = i /\ writes = i)
    /\ pc = "building" => (builds = i + 1 /\ chats = i /\ writes = i)
    /\ pc = "analyzing" => (builds = i + 1 /\ chats = i + 1 /\ writes = i)
    /\ pc = "writing" => (builds = i + 1 /\ chats = i + 1 /\ writes = i + 1)
    /\ writes <= chats
    /\ chats <= FailedBuilds
    /\ FailedBuilds <= builds
    /\ maxIterations >= 0 => builds <= maxIterations

\* C16: in a run of iterateDockerfileBuild (with a budget N >= 0) builds,
\* analyzer calls and writes alternate: a build starts only at the loop test,
\* when every earlier build was followed by its write; a chat call is made
\* only by the return of a failed build, one per failed build; a write is
\* called only by the return of a successful analyzer call; the file changes
\* only while the write runs, never during a build; and
\* #writes <= #analyzer calls <= #failed builds <= #builds <= N.
C16_Alternation ==
    [][reads >= 1 =>
          /\ CallCounts
          /\ CallCounts'
          /\ builds' # builds =>
                 (pc = "loop" /\ builds' = builds + 1 /\ writes = builds)
          /\ chats' # chats =>
                 /\ pc = "building"
                 /\ ~success'
                 /\ chats' = chats + 1
                 /\ chats' = FailedBuilds'
          /\ writes' # writes =>
                 /\ pc = "analyzing"
                 /\ ~resp'.failed /\ resp'.nchoices > 0
                 /\ writes' = writes + 1
                 /\ writes' = chats
          /\ disk' # disk => (pc = "writing" /\ pc' # "building")
          /\ pc = "building" => (disk' = disk /\ writes' = writes)]_vars

C16_Witness ==
    /\ pc = "writing"
    /\ i = 2
    /\ builds = 3
    /\ chats = 3
    /\ writes = 3
    /\ disk # currentDockerfile

-----------------------------------------------------------------------------
(* Termination *)

EndedBySuccess == success /\ err = NoError /\ exitCode = 0

EndedByExhaustion == err.kind = ExhaustedErr /\ ~success /\ exitCode = 1

EndedByError ==
    /\ err.kind \in {ReadDockerfileErr, ReadStructureErr, AnalysisErr,
                     WriteErr}
    /\ ~success
    /\ exitCode = 1

ExactlyOneEnd ==
    /\ EndedBySuccess \/ EndedByExhaustion \/ EndedByError
    /\ ~(EndedBySuccess /\ EndedByExhaustion)
    /\ ~(EndedBySuccess /\ EndedByError)
    /\ ~(EndedByExhaustion /\ EndedByError)

\* C17: when every call returns, every run of iterateDockerfileBuild ends,
\* whatever N and the outcomes of the builds and analyses, and it ends in
\* exactly one way: by the first successful build, by exhaustion of the
\* budget, or by a file read, analyzer or write error.
C17_Terminates == (pc = "read_dockerfile") ~> (pc = "exited" /\ ExactlyOneEnd)

C17_Witness ==
    /\ pc = "exited"
    /\ EndedBySuccess
    /\ ExactlyOneEnd
    /\ maxIterations = 5
    /\ builds = 5

-----------------------------------------------------------------------------
(* A chat response without choices *)

ZeroChoices(r) == ~r.failed /\ r.nchoices = 0

IterationErrLine == <<"Error in dockerfile iteration process: %v">>

ResponseLine == <<"Response: %s">>

\* C18: in both modes that call the chat endpoint, a response with zero
\* choices is an error outcome: the step that receives it does not take it
\* as a text result or as a success, reports an error on standard output,
\* and ends the process with exit code 1.
C18_ZeroChoicesIsError ==
    [][(pc \in {"hello", "analyzing"} /\ ZeroChoices(resp')) =>
          /\ pc' = "exited"
          /\ exitCode' = 1
          /\ {IterationErrLine, HelloErrLine} \cap stdout' # {}
          /\ ResponseLine \notin stdout'
          /\ result' = result
          /\ ~success']_vars

-----------------------------------------------------------------------------
(* What a run leaves on disk *)

\* C19: a build attempt is made only while fewer than N overwrites were
\* made, the k-th one after k - 1 overwrites; and when the run returns the
\* exhausted error with N >= 1, it made N builds, N analyses and N
\* overwrites, the file on disk is the fixed text of the last analysis, and
\* so the N-th overwrite is followed by no build.
C19_ExhaustedLeavesUnbuiltRevision ==
    /\ (reads >= 1 /\ pc = "building") =>
           (writes = builds - 1 /\ writes < maxIterations)
    /\ (LoopReturned /\ err.kind = ExhaustedErr /\ maxIterations >= 1) =>
           /\ builds = maxIterations
           /\ chats = maxIterations
           /\ writes = maxIterations
           /\ result # <<>>
           /\ disk = result[1].FixedDockerfile
           /\ disk = currentDockerfile
           /\ ~success

C19_Witness ==
    /\ LoopReturned
    /\ err.kind = ExhaustedErr
    /\ maxIterations = 1
    /\ builds = 1
    /\ writes = 1
    /\ disk = result[1].FixedDockerfile
    /\ disk # dockerfileContent

\* C20: the step in which a build succeeds ends the run and writes nothing:
\* the file on disk stays the revision that this build used, the run made
\* one overwrite and one chat call per earlier build, and when the first
\* build succeeds the file is still the content read at startup, never
\* written, and no chat call was made.
C20_SuccessLeavesBuiltRevision ==
    [][success' =>
          /\ pc = "building"
          /\ pc' = "exited"
          /\ disk' = disk
          /\ disk = currentDockerfile
          /\ currentDockerfile' = currentDockerfile
          /\ writes' = writes
          /\ writes' = builds' - 1
          /\ chats' = builds' - 1
          /\ builds' = 1 =>
                 /\ disk' = dockerfileContent'
                 /\ writes' = 0
                 /\ chats' = 0
                 /\ result' = <<>>]_vars

C20_Witness ==
    /\ pc = "exited"
    /\ success
    /\ builds = 1
    /\ writes = 0
    /\ chats = 0
    /\ disk = dockerfileContent
    /\ result = <<>>

====
